---- MODULE Spec2Model ----
(***************************************************************************)
(* evpy: battery discharge model (evpy.batt_pred) and the time-stepped     *)
(* powertrain simulation of ex_intg_mdl.py.                                *)
(*                                                                         *)
(* Real quantities are fixed-point numbers: the integer n stands for the   *)
(* real n/Scale.  Products and quotients round toward minus infinity to    *)
(* the next multiple of 1/Scale.  The value nan stands for numpy's NaN: it *)
(* propagates through arithmetic and every comparison with it is false.    *)
(***************************************************************************)
EXTENDS Integers, Sequences, FiniteSets, TLC

VARIABLES
    pc,         \* "input": the caller builds the arguments; "done": batt_pred returned
    I_load,     \* batt_pred argument: load current per sample [A]
    t_hr,       \* batt_pred argument: time of each sample [hr]
    Q_Ah,       \* batt_pred argument: rated capacity of one unit [A.hr]
    R_int,      \* batt_pred argument: internal resistance of one unit [Ohm]
    n_ser,      \* batt_pred argument: units in series (integer count)
    n_prll,     \* batt_pred argument: units in parallel (integer count)
    pkrt,       \* batt_pred argument: Peukert constant, in fifths (6 = 1.2)
    I_pkrt,     \* batt_pred local: Peukert-adjusted current per sample [A]
    Q_out,      \* batt_pred local: cumulative discharged charge per sample [A.hr]
    V_term,     \* batt_pred result: terminal voltage per sample [V]
    dod,        \* batt_pred result: depth of discharge per sample
    soc,        \* batt_pred result: state of charge per sample
    sim_state,  \* ex_intg_mdl: "running", or how the main loop ended
    i,          \* ex_intg_mdl: index of the sample the loop is at
    exp_w,      \* ex_intg_mdl: measured speed of each sample read so far [rad/s]
    exp_M,      \* ex_intg_mdl: measured torque of each sample read so far [N.m]
    QAh,        \* ex_intg_mdl: battery capacity [A.hr]
    soc_cutoff, \* ex_intg_mdl: state of charge at which the simulation stops
    Vcutoff,    \* ex_intg_mdl: cell voltage at which the simulation stops [V]
    sim_Qdisc,  \* ex_intg_mdl: battery charge discharged so far [A.s]
    sim_Vbatt_lcl,  \* ex_intg_mdl: battery voltage of the current step [V]
    sim_duty,   \* ex_intg_mdl: throttle per sample
    sim_Ictrl,  \* ex_intg_mdl: controller current per sample [A]
    sim_soc,    \* ex_intg_mdl: state of charge per sample
    sim_Vsoc_cell,  \* ex_intg_mdl: open-circuit voltage of one cell per sample [V]
    sim_Vbatt_term, \* ex_intg_mdl: terminal voltage of the battery per sample [V]
    mot_pc,     \* caller of motor_pred / esc_pred: "input", "motor", "esc"
    mot_w,      \* motor_pred argument w: motor speed per operating point [rad/s]
    mot_V,      \* motor_pred / esc_pred argument V: voltage of the DC bus [V]
    mot_d,      \* motor_pred / esc_pred argument d: duty ratio
    mot_Rm,     \* motor_pred argument Rm: motor resistance [Ohm]
    mot_kt,     \* motor_pred argument kt: torque constant [N.m/A]
    mot_I0,     \* motor_pred argument I0: no-load current [A]
    mot_T,      \* motor_pred result T: torque per point [N.m]
    mot_P_out,  \* motor_pred result P_out: output power per point [W]
    mot_I,      \* motor_pred result I: input current per point [A]
    mot_P_in,   \* motor_pred result P_in: input power per point [W]
    mot_n,      \* motor_pred result n: efficiency per point
    esc_I_dc,   \* esc_pred result I_dc: current draw per point [A]
    esc_P_dc,   \* esc_pred result P_dc: power draw per point [W]
    esc_n       \* esc_pred result n: efficiency per point

battVars == << pc, I_load, t_hr, Q_Ah, R_int, n_prll, pkrt, I_pkrt, Q_out,
              V_term, dod, soc >>

simInputs == << exp_w, exp_M, QAh, soc_cutoff, Vcutoff >>

simArrays == << sim_duty, sim_Ictrl, sim_soc, sim_Vsoc_cell, sim_Vbatt_term >>

simVars == << sim_state, i, simInputs, sim_Qdisc, sim_Vbatt_lcl, simArrays >>

predArgs == << mot_w, mot_V, mot_d, mot_Rm, mot_kt, mot_I0 >>

motorOut == << mot_T, mot_P_out, mot_I, mot_P_in, mot_n >>

escOut == << esc_I_dc, esc_P_dc, esc_n >>

predVars == << mot_pc, predArgs, motorOut, escOut >>

vars == << battVars, n_ser, simVars, predVars >>

-----------------------------------------------------------------------------
(* Bounds of the model *)

MaxLen == 3     \* samples per trajectory

-----------------------------------------------------------------------------
(* Fixed-point arithmetic with NaN *)

Scale == 10^4

nan == 0 - 2^30

IsNan(x) == x = nan

\* floor(a*b/Scale), split into integer and fractional parts so that no
\* intermediate product overflows
MulSplit(a, b) ==
    LET qa == a \div Scale
        ra == a % Scale
        qb == b \div Scale
        rb == b % Scale
    IN  qa * qb * Scale + qa * rb + ra * qb + (ra * rb) \div Scale

\* floor(a*Scale/b) for b > 0, by long division in two base-100 digits
DivSplit(a, b) ==
    LET r == a % b
        q1 == (r * 100) \div b
        r1 == (r * 100) % b
        q2 == (r1 * 100) \div b
    IN  (a \div b) * Scale + q1 * 100 + q2

FAdd(a, b) == IF IsNan(a) \/ IsNan(b) THEN nan ELSE a + b

FSub(a, b) == IF IsNan(a) \/ IsNan(b) THEN nan ELSE a - b

FMul(a, b) == IF IsNan(a) \/ IsNan(b) THEN nan ELSE MulSplit(a, b)

\* division by zero gives nan (numpy: inf or nan, with a warning)
FDiv(a, b) ==
    IF IsNan(a) \/ IsNan(b) \/ b = 0 THEN nan
    ELSE IF b > 0 THEN DivSplit(a, b)
    ELSE DivSplit(0 - a, 0 - b)

\* comparisons: false when either side is NaN
FGt(a, b) == ~IsNan(a) /\ ~IsNan(b) /\ a > b

FLt(a, b) == ~IsNan(a) /\ ~IsNan(b) /\ a < b

FLe(a, b) == ~IsNan(a) /\ ~IsNan(b) /\ a <= b

\* x**n for a natural number n
RECURSIVE IPow(_, _)
IPow(x, n) == IF n = 0 THEN Scale ELSE FMul(IPow(x, n - 1), x)

\* the largest r in lo..hi-1 with r**5 <= x (bisection; r**5 is monotone in r >= 0)
RECURSIVE Root5Search(_, _, _)
Root5Search(lo, hi, x) ==
    IF hi - lo <= 1 THEN lo
    ELSE LET mid == (lo + hi) \div 2
         IN  IF IPow(mid, 5) <= x THEN Root5Search(mid, hi, x)
             ELSE Root5Search(lo, mid, x)

Root5(x) == Root5Search(0, (IF x > Scale THEN x ELSE Scale) + 1, x)

\* numpy power x**(e/5): the exponent is given in fifths
Pow(x, e) ==
    IF IsNan(x) THEN nan
    ELSE IF e % 5 = 0 THEN IPow(x, e \div 5)
    ELSE IF x < 0 THEN nan
    ELSE FMul(IPow(x, e \div 5), IPow(Root5(x), e % 5))

\* exp(-1) and exp(1)
ExpM1 == 3679

Exp1 == 27183

\* Taylor series of exp(-f) for 0 <= f < 1: sum of (-f)^k/k!, k = 0..12
RECURSIVE ExpFracTerm(_, _, _, _)
ExpFracTerm(f, k, term, acc) ==
    IF k > 12 \/ term = 0 THEN acc
    ELSE LET next == (term * f) \div (Scale * k)
         IN  ExpFracTerm(f, k + 1, next,
                         IF k % 2 = 1 THEN acc - next ELSE acc + next)

\* v * exp(-n) for an integer n
RECURSIVE ExpInt(_, _)
ExpInt(v, n) ==
    IF n = 0 \/ v = 0 THEN v
    ELSE IF n > 0 THEN ExpInt(MulSplit(v, ExpM1), n - 1)
    ELSE ExpInt(MulSplit(v, Exp1), n + 1)

\* numpy exp(-x)
ExpNeg(x) ==
    IF IsNan(x) THEN nan
    ELSE ExpInt(ExpFracTerm(x % Scale, 1, Scale, Scale), x \div Scale)

-----------------------------------------------------------------------------
(* evpy.batt_pred *)

N == Len(I_load)

\* a function on 1..n as a sequence
AsSeq(f) == SubSeq(f, 1, Len(f))

\* the capacity of one unit, forgetting the parallel strings
Q_tot_OneUnit == Q_Ah

\* total capacity of the pack [A.hr]
Q_tot == n_prll * Q_Ah

\* rated current of the pack [A]
I_rated == n_prll * Q_Ah

\* a Peukert test that also exponentiates a load exactly at the rated current
pkrt_exp_AtRated(I) == IF FGt(FDiv(I, I_rated), Scale) \/ I = I_rated THEN pkrt ELSE 5

\* Peukert exponent of one sample, in fifths: pkrt where the load is above rated, else 1
pkrt_exp(I) == IF FGt(FDiv(I, I_rated), Scale) THEN pkrt ELSE 5

\* a load current integrated as it is, without the Peukert exponent
Peukert_Raw(I) == I

\* Peukert-adjusted current of one sample: I_load**pkrt_exp
Peukert(I) == Pow(I, pkrt_exp(I))

\* an integration that takes the intervals backwards (x[k-1] - x[k])
RECURSIVE cumtrapz_Backward(_, _)
cumtrapz_Backward(y, x) ==
    IF Len(y) = 1 THEN << 0 >>
    ELSE LET k == Len(y)
             head == cumtrapz_Backward(SubSeq(y, 1, k - 1), SubSeq(x, 1, k - 1))
         IN  Append(head,
                    FAdd(head[k-1],
                         FDiv(FMul(FSub(x[k-1], x[k]), FAdd(y[k], y[k-1])), 2 * Scale)))

\* scipy.integrate.cumtrapz(y, x, initial=0)
RECURSIVE cumtrapz(_, _)
cumtrapz(y, x) ==
    IF Len(y) = 1 THEN << 0 >>
    ELSE LET k == Len(y)
             head == cumtrapz(SubSeq(y, 1, k - 1), SubSeq(x, 1, k - 1))
         IN  Append(head,
                    FAdd(head[k-1],
                         FDiv(FMul(FSub(x[k], x[k-1]), FAdd(y[k], y[k-1])), 2 * Scale)))

\* a depletion test that also throws out the sample at exactly Q_tot
MaskOver_AtCapacity(Q) ==
    AsSeq([k \in 1..Len(Q) |-> IF FGt(Q[k], Q_tot) \/ Q[k] = Q_tot THEN nan ELSE Q[k]])

\* Q_out[Q_out>Q_tot] = np.nan
MaskOver(Q) == AsSeq([k \in 1..Len(Q) |-> IF FGt(Q[k], Q_tot) THEN nan ELSE Q[k]])

\* empirical per-cell open-circuit voltage at state of charge s
V_cell(s) ==
    LET s2 == FMul(s, s)
        s3 == FMul(s2, s)
    IN  FAdd(FSub(FAdd(FAdd(FMul(0 - 10310, ExpNeg(FMul(35 * Scale, s))), 36850),
                       FMul(s, 2156)),
                  FMul(s2, 1178)),
             FMul(s3, 3201))

\* an equivalent resistance that forgets the parallel strings
R_eq_SeriesOnly == FMul(R_int, n_ser * Scale)

\* equivalent resistance of the pack [Ohm]
R_eq == FMul(R_int, FDiv(n_ser * Scale, n_prll * Scale))

\* terminal voltage of the pack for one sample
TermVolt(s, Ip) == FSub(FMul(V_cell(s), n_ser * Scale), FMul(Ip, R_eq))

batt_pred ==
    /\ pc = "input"
    /\ I_pkrt' = AsSeq([k \in 1..N |-> Peukert(I_load[k])])
    /\ Q_out' = MaskOver(cumtrapz(I_pkrt', t_hr))
    /\ dod' = AsSeq([k \in 1..N |-> FDiv(Q_out'[k], Q_tot)])
    /\ soc' = AsSeq([k \in 1..N |-> FSub(Scale, dod'[k])])
    /\ V_term' = AsSeq([k \in 1..N |-> TermVolt(soc'[k], I_pkrt'[k])])
    /\ pc' = "done"
    /\ UNCHANGED << I_load, t_hr, Q_Ah, R_int, n_ser, n_prll, pkrt, simVars, predVars >>

-----------------------------------------------------------------------------
(* The caller: builds the load history sample by sample, then calls batt_pred *)

\* load currents: charging, idle, rated and overload
CurrSet == { a * Scale : a \in (0 - 1)..3 }

DtSet == { 0 - (Scale \div 2), Scale \div 4, 2 * Scale }

\* packs << Q_Ah, n_ser, n_prll >>
Packs == { << Scale, 1, 1 >>, << Scale \div 2, 3, 2 >>, << 2 * Scale, 2, 1 >> }

AddSample(I, dt) ==
    /\ pc = "input"
    /\ N < MaxLen
    /\ I_load' = Append(I_load, I)
    /\ t_hr' = Append(t_hr, t_hr[N] + dt)
    /\ UNCHANGED << pc, Q_Ah, R_int, n_ser, n_prll, pkrt, I_pkrt, Q_out, V_term, dod, soc,
                   simVars, predVars >>

Init ==
    /\ pc = "input"
    /\ \E I \in CurrSet : I_load = << I >> /\ t_hr = << Scale >>
    /\ \E p \in Packs : Q_Ah = p[1] /\ n_ser = p[2] /\ n_prll = p[3]
    /\ R_int = 700
    /\ pkrt \in {6, 10}
    /\ I_pkrt = << >>
    /\ Q_out = << >>
    /\ V_term = << >>
    /\ dod = << >>
    /\ soc = << >>
    /\ sim_state = "unused"
    /\ i = 0
    /\ exp_w = << >> /\ exp_M = << >>
    /\ QAh = 0 /\ soc_cutoff = 1000 /\ Vcutoff = 33000
    /\ sim_Qdisc = 0 /\ sim_Vbatt_lcl = 0
    /\ sim_duty = << >> /\ sim_Ictrl = << >> /\ sim_soc = << >>
    /\ sim_Vsoc_cell = << >> /\ sim_Vbatt_term = << >>
    /\ mot_pc = "unused"
    /\ mot_w = << >>
    /\ mot_V = 0 /\ mot_d = 0 /\ mot_Rm = 0 /\ mot_kt = 0 /\ mot_I0 = 0
    /\ mot_T = << >> /\ mot_P_out = << >> /\ mot_I = << >> /\ mot_P_in = << >>
    /\ mot_n = << >>
    /\ esc_I_dc = << >> /\ esc_P_dc = << >> /\ esc_n = << >>

-----------------------------------------------------------------------------
(* ex_intg_mdl.py: motor + controller + battery, stepped over measured data *)

\* motor params
kt == 251

Rm == 750

I0 == 5000

\* vehicle
num_rotors == 4

\* battery params
Rcell == 130

soc_init == 10000

fsample == 2

sim_dt == FDiv(Scale, fsample * Scale)

Qrated == QAh * 3600

\* samples in the measured data (sim_t.shape[0])
SimLen == 4

\* ev.soc_volts: open-circuit voltage of one cell
soc_volts(s) == V_cell(s)

\* ev.throttle_calc: duty ratio for speed w at bus voltage V
throttle_calc(w, V, k) == FDiv(FMul(w, k), V)

\* ev.mot_eff: << I_ac, P_ac, efficiency, loss >> of the motor
mot_eff(w, M, d, V, k, R, Inl) ==
    LET E == FMul(k, w)
        I == FAdd(FDiv(M, k), Inl)
        P_mech == FMul(M, w)
        Q_cu == FMul(R, FMul(I, I))
        Q_fe == FMul(FMul(k, Inl), w)
        Q_misc == FMul(1000, P_mech)
        Q_mot == FAdd(Q_misc, FDiv(FAdd(Q_cu, Q_fe), d))
        P_ac == FAdd(P_mech, Q_mot)
    IN  << FDiv(P_ac, E), P_ac, FDiv(P_mech, P_ac), Q_mot >>

\* ESC defaults: on-resistance, quiescent power, and switching frequency times
\* transition time (12 kHz * 1 us)
R_ds_on == 10

P_qui == 2500

f_pwm_T_trans == 120

\* ev.ctrl_eff: << I_dc, P_dc, efficiency, loss >> of the controller
ctrl_eff(Iac, Pac, d, V) ==
    LET Q_cond == FMul(FMul(2 * Scale, R_ds_on), FMul(Iac, Iac))
        Q_sw == FMul(FMul(f_pwm_T_trans, V), Iac)
        Q_esc == FAdd(P_qui, FDiv(FAdd(Q_cond, Q_sw), d))
        P_dc == FAdd(Pac, Q_esc)
    IN  << FDiv(P_dc, V), P_dc, FDiv(Pac, P_dc), Q_esc >>

\* an over-load test that forgets the throttle limit
Overload_NoDuty(d, M, w) == FGt(M, 2 * Scale) \/ FGt(w, 1000 * Scale)

\* stop if over-load applied
Overload(d, M, w) == FGt(d, Scale) \/ FGt(M, 2 * Scale) \/ FGt(w, 1000 * Scale)

\* a pass-through test that forgets the throttle limit
NoLoad_NoDuty(d, M, w) == FLt(M, 0) \/ FLt(w, 0)

\* pass-through values if no (or weird) load applied
NoLoad(d, M, w) == FLt(d, 3000) \/ FLt(M, 0) \/ FLt(w, 0)

\* controller current of one rotor at this step
Idc_of(w, M, d, V) ==
    LET mot == mot_eff(w, M, d, V, kt, Rm, I0)
    IN  ctrl_eff(mot[1], mot[2], d, V)[1]

\* deduct total current from battery: the charge discharged after the step
Qdisc_after(Q, Idc_tot, dt) == FAdd(Q, FMul(Idc_tot, dt))

\* state of charge for a discharged charge Q of a battery rated Qr
soc_after(Q, Qr) == FSub(soc_init, FDiv(Q, Qr))

\* TOTAL voltage of ns cells of resistance Rc under current Idc_tot
Vbatt_after(Vsoc_cell, Idc_tot, ns, Rc) ==
    FMul(ns * Scale, FSub(Vsoc_cell, FMul(Idc_tot, Rc)))

SocCut(soc_lcl) == FLe(soc_lcl, soc_cutoff)

\* a cutoff test against a fixed 3.3 V instead of the specified cutoff
VoltCut_Fixed(Vsoc_cell) == FLe(Vsoc_cell, 33000)

VoltCut(Vsoc_cell) == FLe(Vsoc_cell, Vcutoff)

duty_lcl(w) == throttle_calc(w, sim_Vbatt_lcl, kt)

Idc_tot_of(w, M) == FMul(num_rotors * Scale, Idc_of(w, M, duty_lcl(w), sim_Vbatt_lcl))

Running == sim_state = "running" /\ i < SimLen

\* the loop reads sample i of the measured data
ReadSample(w, M) ==
    /\ exp_w' = [exp_w EXCEPT ![i] = w]
    /\ exp_M' = [exp_M EXCEPT ![i] = M]

\* one iteration that ends at the over-load break
StepOverload(w, M) ==
    /\ Running
    /\ ReadSample(w, M)
    /\ Overload(duty_lcl(w), M, w)
    /\ sim_state' = "overload"
    /\ UNCHANGED << i, QAh, soc_cutoff, Vcutoff, sim_Qdisc, sim_Vbatt_lcl, simArrays,
                   battVars, n_ser,
                   predVars >>

\* a pass-through that stays at the same sample
StepPassThrough_NoIncrement(w, M) ==
    /\ Running
    /\ ReadSample(w, M)
    /\ ~Overload(duty_lcl(w), M, w)
    /\ NoLoad(duty_lcl(w), M, w)
    /\ sim_Vbatt_term' = [sim_Vbatt_term EXCEPT ![i] = sim_Vbatt_term[i-1]]
    /\ sim_Ictrl' = [sim_Ictrl EXCEPT ![i] = sim_Ictrl[i-1]]
    /\ UNCHANGED << i, sim_state, QAh, soc_cutoff, Vcutoff, sim_Qdisc, sim_Vbatt_lcl,
                   sim_duty, sim_soc, sim_Vsoc_cell, battVars, n_ser, predVars >>

\* one iteration that passes the previous values through
StepPassThrough(w, M) ==
    /\ Running
    /\ ReadSample(w, M)
    /\ ~Overload(duty_lcl(w), M, w)
    /\ NoLoad(duty_lcl(w), M, w)
    /\ sim_Vbatt_term' = [sim_Vbatt_term EXCEPT ![i] = sim_Vbatt_term[i-1]]
    /\ sim_Ictrl' = [sim_Ictrl EXCEPT ![i] = sim_Ictrl[i-1]]
    /\ i' = i + 1
    /\ UNCHANGED << sim_state, QAh, soc_cutoff, Vcutoff, sim_Qdisc, sim_Vbatt_lcl,
                   sim_duty, sim_soc, sim_Vsoc_cell, battVars, n_ser,
                   predVars >>

\* the battery update of an iteration that evaluates the motor and controller
Discharge(w, M) ==
    /\ Running
    /\ ReadSample(w, M)
    /\ ~Overload(duty_lcl(w), M, w)
    /\ ~NoLoad(duty_lcl(w), M, w)
    /\ sim_Qdisc' = Qdisc_after(sim_Qdisc, Idc_tot_of(w, M), sim_dt)
    /\ sim_Vbatt_lcl' = Vbatt_after(soc_volts(soc_after(sim_Qdisc', Qrated)),
                                    Idc_tot_of(w, M), n_ser, Rcell)

\* one iteration that ends at the state-of-charge cutoff
StepSocCutoff(w, M) ==
    /\ Discharge(w, M)
    /\ SocCut(soc_after(sim_Qdisc', Qrated))
    /\ sim_state' = "soc_cutoff"
    /\ UNCHANGED << i, QAh, soc_cutoff, Vcutoff, simArrays, battVars, n_ser,
                   predVars >>

\* one iteration that ends at the cell-voltage cutoff
StepVoltCutoff(w, M) ==
    /\ Discharge(w, M)
    /\ ~SocCut(soc_after(sim_Qdisc', Qrated))
    /\ VoltCut(soc_volts(soc_after(sim_Qdisc', Qrated)))
    /\ sim_state' = "volt_cutoff"
    /\ UNCHANGED << i, QAh, soc_cutoff, Vcutoff, simArrays, battVars, n_ser,
                   predVars >>

\* one iteration that records its sample and goes on
StepRecord(w, M) ==
    /\ Discharge(w, M)
    /\ ~SocCut(soc_after(sim_Qdisc', Qrated))
    /\ ~VoltCut(soc_volts(soc_after(sim_Qdisc', Qrated)))
    /\ sim_soc' = [sim_soc EXCEPT ![i] = soc_after(sim_Qdisc', Qrated)]
    /\ sim_Vbatt_term' = [sim_Vbatt_term EXCEPT ![i] = sim_Vbatt_lcl']
    /\ sim_Vsoc_cell' = [sim_Vsoc_cell EXCEPT ![i] = soc_volts(sim_soc'[i])]
    /\ sim_duty' = [sim_duty EXCEPT ![i] = duty_lcl(w)]
    /\ sim_Ictrl' = [sim_Ictrl EXCEPT ![i] = Idc_of(w, M, duty_lcl(w), sim_Vbatt_lcl)]
    /\ i' = i + 1
    /\ UNCHANGED << sim_state, QAh, soc_cutoff, Vcutoff, battVars, n_ser,
                   predVars >>

\* the loop condition fails: SIMULATION COMPLETE
LoopExit ==
    /\ sim_state = "running"
    /\ i >= SimLen
    /\ sim_state' = "complete"
    /\ UNCHANGED << i, simInputs, sim_Qdisc, sim_Vbatt_lcl, simArrays, battVars, n_ser,
                   predVars >>

\* measured speeds [rad/s] and torques [N.m] (the torque is an absolute value)
WSet == { (0 - 100) * Scale, 200 * Scale, 300 * Scale, 500 * Scale, 990 * Scale,
          1100 * Scale }

MSet == { 1000, 3000, 25000 }

AllNan == [k \in 0..(SimLen - 1) |-> nan]

SimInit ==
    /\ sim_state = "running"
    /\ i = 1
    /\ exp_w = AllNan
    /\ exp_M = AllNan
    /\ QAh \in { 140, 200 }
    /\ soc_cutoff = 1000
    /\ Vcutoff \in { 33000, 37000 }
    /\ n_ser = 6
    /\ sim_Qdisc = 0
    /\ sim_Vbatt_lcl = FMul(n_ser * Scale, soc_volts(soc_init))
    /\ sim_duty = AllNan
    /\ sim_Ictrl = [AllNan EXCEPT ![0] = 0]
    /\ sim_soc = AllNan
    /\ sim_Vsoc_cell = AllNan
    /\ sim_Vbatt_term = [AllNan EXCEPT ![0] = FMul(n_ser * Scale, soc_volts(soc_init))]
    /\ pc = "unused"
    /\ I_load = << >> /\ t_hr = << >>
    /\ Q_Ah = 0 /\ R_int = 0 /\ n_prll = 0 /\ pkrt = 0
    /\ I_pkrt = << >> /\ Q_out = << >> /\ V_term = << >> /\ dod = << >> /\ soc = << >>
    /\ mot_pc = "unused"
    /\ mot_w = << >>
    /\ mot_V = 0 /\ mot_d = 0 /\ mot_Rm = 0 /\ mot_kt = 0 /\ mot_I0 = 0
    /\ mot_T = << >> /\ mot_P_out = << >> /\ mot_I = << >> /\ mot_P_in = << >>
    /\ mot_n = << >>
    /\ esc_I_dc = << >> /\ esc_P_dc = << >> /\ esc_n = << >>

SimNext ==
    \/ \E w \in WSet, M \in MSet : StepOverload(w, M)
    \/ \E w \in WSet, M \in MSet : StepPassThrough(w, M)
    \/ \E w \in WSet, M \in MSet : StepSocCutoff(w, M)
    \/ \E w \in WSet, M \in MSet : StepVoltCutoff(w, M)
    \/ \E w \in WSet, M \in MSet : StepRecord(w, M)
    \/ LoopExit

SpecSim == SimInit /\ [][SimNext]_vars

\* the script runs on: an iteration that can be taken is taken
SpecSimFair == SimInit /\ [][SimNext]_vars /\ WF_vars(SimNext)

-----------------------------------------------------------------------------
(* The battery update of the ex_intg_mdl loop, run over the load history of
   batt_pred: the rated charge is the capacity of the pack, the cell resistance
   is the resistance of one series position, the time step is the step of t_hr.
   Charge is kept in A.hr here, as t_hr is in hours. *)

NanTail(s) == s \o [k \in 1..(N - Len(s)) |-> nan]

\* iterations k..N of the loop: << sim_Qdisc, sim_soc, sim_Vbatt_term >>
RECURSIVE LoopFrom(_, _, _, _, _)
LoopFrom(k, dt, Q, socs, volts) ==
    IF k > N
    THEN << Q, socs, volts >>
    ELSE LET Idc_tot == I_load[k]
             Q2 == Qdisc_after(Q, Idc_tot, dt)
             soc_lcl == soc_after(Q2, Q_tot)
         IN  IF SocCut(soc_lcl) \/ VoltCut(soc_volts(soc_lcl))
             THEN << Q2, NanTail(socs), NanTail(volts) >>
             ELSE LoopFrom(k + 1, dt, Q2, Append(socs, soc_lcl),
                           Append(volts, Vbatt_after(soc_volts(soc_lcl), Idc_tot, n_ser,
                                                     FDiv(R_int, n_prll * Scale))))

incremental_mode ==
    /\ pc = "done"
    /\ N >= 2
    /\ t_hr[2] > t_hr[1]
    /\ \A k \in 2..N : t_hr[k] - t_hr[k-1] = t_hr[2] - t_hr[1]
    /\ LET run == LoopFrom(2, t_hr[2] - t_hr[1], 0, << nan >>,
                           << FMul(n_ser * Scale, soc_volts(soc_init)) >>)
       IN  /\ sim_Qdisc' = run[1]
           /\ sim_soc' = run[2]
           /\ sim_Vbatt_term' = run[3]
    /\ pc' = "compared"
    /\ UNCHANGED << I_load, t_hr, Q_Ah, R_int, n_prll, pkrt, I_pkrt, Q_out, V_term, dod,
                   soc, n_ser, sim_state, i, simInputs, sim_Vbatt_lcl, sim_duty,
                   sim_Ictrl, sim_Vsoc_cell, predVars >>

Next ==
    \/ \E I \in CurrSet, dt \in DtSet : AddSample(I, dt)
    \/ batt_pred
    \/ incremental_mode

Spec == Init /\ [][Next]_vars

-----------------------------------------------------------------------------
(* evpy.motor_pred and evpy.esc_pred over an array of operating points *)

\* operating points per call
MaxPts == 3

\* a mask that also drops every element after the first one below lim
MaskBelow_Latched(x, lim) ==
    [k \in 1..Len(x) |-> IF \E j \in 1..k : FLt(x[j], lim) THEN nan ELSE x[k]]

\* x[x<lim] = np.nan
MaskBelow(x, lim) == [k \in 1..Len(x) |-> IF FLt(x[k], lim) THEN nan ELSE x[k]]

\* x[x>lim] = np.nan
MaskAbove(x, lim) == [k \in 1..Len(x) |-> IF FGt(x[k], lim) THEN nan ELSE x[k]]

\* the torque-speed curve
motor_T(w) ==
    [k \in 1..Len(w) |->
        FDiv(FSub(FMul(FMul(mot_V, mot_d), mot_kt), FMul(w[k], FMul(mot_kt, mot_kt))),
             mot_Rm)]

motor_P_out(T, w) == [k \in 1..Len(w) |-> FMul(T[k], w[k])]

\* the input current, non-real data removed
motor_I(T) == MaskBelow([k \in 1..Len(T) |-> FAdd(FDiv(T[k], mot_kt), mot_I0)], 0)

\* the input power with every loss divided by the duty ratio
motor_P_in_AllOverD(P_out, I, w, d) ==
    [k \in 1..Len(w) |->
        FAdd(P_out[k],
             FDiv(FAdd(FMul(P_out[k], 1000),
                       FAdd(FMul(mot_Rm, FMul(I[k], I[k])),
                            FMul(FMul(w[k], mot_kt), mot_I0))), d))]

\* the input power with the losses multiplied by the duty ratio
motor_P_in_TimesD(P_out, I, w, d) ==
    [k \in 1..Len(w) |->
        FAdd(FMul(P_out[k], 11000),
             FMul(FAdd(FMul(mot_Rm, FMul(I[k], I[k])), FMul(FMul(w[k], mot_kt), mot_I0)),
                  d))]

\* losses, and the input power with throttle-harmonics
motor_P_in(P_out, I, w, d) ==
    [k \in 1..Len(w) |->
        LET P_L_co == FMul(mot_Rm, FMul(I[k], I[k]))
            P_L_ir == FMul(FMul(w[k], mot_kt), mot_I0)
        IN  FAdd(FMul(P_out[k], 11000), FDiv(FAdd(P_L_co, P_L_ir), d))]

\* an efficiency that is masked below 0 only
eff_NoUpperMask(P_o, P_i) ==
    MaskBelow([k \in 1..Len(P_o) |-> FDiv(P_o[k], P_i[k])], 0)

\* an efficiency that is masked above 1 only
eff_NoLowerMask(P_o, P_i) ==
    MaskAbove([k \in 1..Len(P_o) |-> FDiv(P_o[k], P_i[k])], Scale)

\* n = P_o/P_i; n[n>1.0] = np.nan; n[n<0.0] = np.nan
eff(P_o, P_i) ==
    MaskBelow(MaskAbove([k \in 1..Len(P_o) |-> FDiv(P_o[k], P_i[k])], Scale), 0)

\* motor_pred on the array w: << T, P_out, I, P_in, n >>
motor_pred_of(w) ==
    LET T == AsSeq(motor_T(w))
        P_out == AsSeq(motor_P_out(T, w))
        I == AsSeq(motor_I(T))
        P_in == AsSeq(motor_P_in(P_out, I, w, mot_d))
    IN  << T, P_out, I, P_in, AsSeq(eff(P_out, P_in)) >>

\* esc_pred defaults: Ron, and f_pwm*Ton (8 kHz * 1 us)
Ron == 100

f_pwm_Ton == 80

\* the power draw of the ESC
esc_P_dc_of(Im, Pm, V, d) ==
    [k \in 1..Len(Im) |->
        LET P_L_co == FMul(FMul(2 * Scale, Ron), FMul(Im[k], Im[k]))
            P_L_sw == FMul(FMul(V, Im[k]), f_pwm_Ton)
        IN  FAdd(Pm[k], FDiv(FAdd(P_L_co, P_L_sw), d))]

\* I_dc = P_dc/V; I_dc[I_dc>1.0] = np.nan; I_dc[I_dc<0.0] = np.nan
esc_I_dc_of(P_dc, V) ==
    MaskBelow(MaskAbove([k \in 1..Len(P_dc) |-> FDiv(P_dc[k], V)], Scale), 0)

\* esc_pred on the arrays Im, Pm: << I_dc, P_dc, n >>
esc_pred_of(Im, Pm, V, d) ==
    LET P_dc == AsSeq(esc_P_dc_of(Im, Pm, V, d))
    IN  << AsSeq(esc_I_dc_of(P_dc, V)), P_dc, AsSeq(eff(Pm, P_dc)) >>

\* the caller adds an operating point
AddPoint(w) ==
    /\ mot_pc = "input"
    /\ Len(mot_w) < MaxPts
    /\ mot_w' = Append(mot_w, w)
    /\ UNCHANGED << mot_pc, mot_V, mot_d, mot_Rm, mot_kt, mot_I0, motorOut, escOut,
                   battVars, n_ser, simVars >>

motor_pred ==
    /\ mot_pc = "input"
    /\ Len(mot_w) >= 1
    /\ LET out == motor_pred_of(mot_w)
       IN  /\ mot_T' = out[1]
           /\ mot_P_out' = out[2]
           /\ mot_I' = out[3]
           /\ mot_P_in' = out[4]
           /\ mot_n' = out[5]
    /\ mot_pc' = "motor"
    /\ UNCHANGED << predArgs, escOut, battVars, n_ser, simVars >>

\* the ESC is evaluated under the load of the motor: Im = I, Pm = P_in
esc_pred ==
    /\ mot_pc = "motor"
    /\ LET out == esc_pred_of(mot_I, mot_P_in, mot_V, mot_d)
       IN  /\ esc_I_dc' = out[1]
           /\ esc_P_dc' = out[2]
           /\ esc_n' = out[3]
    /\ mot_pc' = "esc"
    /\ UNCHANGED << predArgs, motorOut, battVars, n_ser, simVars >>

\* speeds [rad/s], duty ratios, resistances [Ohm] and no-load currents [A] of
\* the calls; the non-positive values are the misconfigured ones
PredW == { 0, 2000, 2 * Scale, 4 * Scale, 45000, 5 * Scale, 6 * Scale }

PredD == { 1000, 5000, Scale, 0 - 5000 }

PredRm == { 5000, 0 - 5000 }

PredI0 == { 0, Scale }

PredInit ==
    /\ mot_pc = "input"
    /\ mot_w = << >>
    /\ mot_V = 2 * Scale
    /\ mot_d \in PredD
    /\ mot_Rm \in PredRm
    /\ mot_kt = 5000
    /\ mot_I0 \in PredI0
    /\ mot_T = << >> /\ mot_P_out = << >> /\ mot_I = << >> /\ mot_P_in = << >>
    /\ mot_n = << >>
    /\ esc_I_dc = << >> /\ esc_P_dc = << >> /\ esc_n = << >>
    /\ pc = "unused"
    /\ I_load = << >> /\ t_hr = << >>
    /\ Q_Ah = 0 /\ R_int = 0 /\ n_prll = 0 /\ pkrt = 0 /\ n_ser = 0
    /\ I_pkrt = << >> /\ Q_out = << >> /\ V_term = << >> /\ dod = << >> /\ soc = << >>
    /\ sim_state = "unused"
    /\ i = 0
    /\ exp_w = << >> /\ exp_M = << >>
    /\ QAh = 0 /\ soc_cutoff = 0 /\ Vcutoff = 0
    /\ sim_Qdisc = 0 /\ sim_Vbatt_lcl = 0
    /\ sim_duty = << >> /\ sim_Ictrl = << >> /\ sim_soc = << >>
    /\ sim_Vsoc_cell = << >> /\ sim_Vbatt_term = << >>

PredNext ==
    \/ \E w \in PredW : AddPoint(w)
    \/ motor_pred
    \/ esc_pred

SpecPred == PredInit /\ [][PredNext]_vars

-----------------------------------------------------------------------------
(* Properties of batt_pred *)

Done == pc \in { "done", "compared" }

\* the cumulative discharge before the depletion test overwrites it
RawQ == cumtrapz(I_pkrt, t_hr)

Flagged(k) == IsNan(V_term[k]) /\ IsNan(dod[k]) /\ IsNan(soc[k])

ValidSample(k) == ~IsNan(V_term[k]) /\ ~IsNan(dod[k]) /\ ~IsNan(soc[k])

NonNegLoad == \A k \in 1..N : I_load[k] >= 0

TimeOrdered == \A k \in 2..N : t_hr[k] >= t_hr[k-1]

ConstantLoad == \A k \in 1..N : I_load[k] = I_load[1]

UniformSteps == \A k \in 2..N : t_hr[k] - t_hr[k-1] = t_hr[2] - t_hr[1]

\* the Peukert-adjusted current as the documentation states it
SpecPeukert(I) == IF I > n_prll * Q_Ah THEN Pow(I, pkrt) ELSE I

\* C1: once the cumulative discharge exceeds the pack capacity at sample k,
\* sample k and every later sample is flagged invalid, whatever the load does
\* afterwards (stated here for time-ordered samples).
C1_DepletionLatched ==
    (Done /\ TimeOrdered) => \A k \in 1..N : RawQ[k] > Q_tot => \A j \in k..N : Flagged(j)

\* C2 as stated: a sample at exactly Q_tot is valid with dod = 1 and soc = 0,
\* and all samples after it are flagged invalid (stated here for a discharge:
\* non-negative load, time-ordered samples).
C2_BoundaryThenAllFlagged ==
    (Done /\ NonNegLoad /\ TimeOrdered) => \A k \in 1..N : RawQ[k] = Q_tot =>
                /\ ValidSample(k) /\ dod[k] = Scale /\ soc[k] = 0
                /\ \A j \in (k+1)..N : Flagged(j)

\* C2 amended: a sample at exactly Q_tot is valid with dod = 1 and soc = 0 (the
\* depletion test is strict); a later sample is flagged exactly when its own
\* cumulative discharge is above Q_tot, which is every later sample as long as
\* the load stays positive and time increases.
C2_BoundaryStrict ==
    Done => \A k \in 1..N : RawQ[k] = Q_tot =>
                /\ ValidSample(k) /\ dod[k] = Scale /\ soc[k] = 0
                /\ \A j \in (k+1)..N :
                      /\ Flagged(j) <=> RawQ[j] > Q_tot
                      /\ (\A m \in (k+1)..j : I_load[m-1] > 0 /\ I_load[m] > 0
                                              /\ t_hr[m] > t_hr[m-1]) => Flagged(j)

C2_Witness ==
    /\ Done
    /\ \E k \in 1..N : /\ RawQ[k] = Q_tot /\ soc[k] = 0
                       /\ \E j \in (k+1)..N : I_load[j] > 0 /\ Flagged(j)

\* C6: the effective current of a sample is I_load**pkrt exactly when the load
\* is strictly above the rated current n_prll*Q_Ah and I_load otherwise, and
\* Q_out is the trapezoidal integral of this adjusted current; at twice the
\* rated current of a 1 A.hr unit with pkrt = 1.2 it is 2**1.2 = 2.2974.
C6_PeukertCurrent ==
    Done =>
        /\ \A k \in 1..N : I_pkrt[k] = SpecPeukert(I_load[k])
        /\ \A k \in 1..N : I_load[k] = n_prll * Q_Ah => I_pkrt[k] = I_load[k]
        /\ \A k \in 1..N : (I_load[k] = 2 * Scale /\ Q_tot = Scale /\ pkrt = 6)
                               => (I_pkrt[k] >= 22972 /\ I_pkrt[k] <= 22976)
        /\ Q_out[1] = 0
        /\ \A k \in 2..N : (~IsNan(Q_out[k]) /\ ~IsNan(Q_out[k-1])) =>
               Q_out[k] - Q_out[k-1] =
                   MulSplit(t_hr[k] - t_hr[k-1], I_pkrt[k] + I_pkrt[k-1]) \div 2

C6_Witness ==
    /\ Done
    /\ \E k \in 2..N : /\ I_load[k] > n_prll * Q_Ah /\ I_pkrt[k] > I_load[k]
                       /\ ~IsNan(Q_out[k]) /\ Q_out[k] # 0
    /\ \E k \in 1..N : I_load[k] = n_prll * Q_Ah /\ I_load[k] # Scale

\* the rounding of one fixed-point operation per interval
Tol == 2 * MaxLen

Near(a, b) == ~IsNan(a) /\ ~IsNan(b) /\ a - b <= Tol /\ b - a <= Tol

\* C7 as stated: under a constant discharge current I over uniform steps, Q_out
\* at every valid sample is I*(t[k]-t[0]), and the trajectory starts at
\* Q_out = 0, soc = 1.
C7_ConstantLoadRawCharge ==
    (Done /\ ConstantLoad /\ UniformSteps /\ NonNegLoad /\ TimeOrdered) =>
        /\ Q_out[1] = 0 /\ soc[1] = Scale
        /\ \A k \in 1..N : ValidSample(k) =>
               /\ Near(Q_out[k], FMul(I_load[1], t_hr[k] - t_hr[1]))
               /\ dod[k] = FDiv(Q_out[k], Q_tot)

\* C7 amended: under a constant current I over uniform steps, Q_out at every
\* valid sample is I_pkrt*(t[k]-t[0]), where I_pkrt is I**pkrt when I is above
\* the rated current and I otherwise; the trajectory starts at Q_out = 0, soc = 1.
C7_ConstantLoadPeukertCharge ==
    (Done /\ ConstantLoad /\ UniformSteps) =>
        /\ Q_out[1] = 0 /\ soc[1] = Scale
        /\ \A k \in 1..N : ValidSample(k) =>
               /\ Near(Q_out[k], FMul(SpecPeukert(I_load[1]), t_hr[k] - t_hr[1]))
               /\ dod[k] = FDiv(Q_out[k], Q_tot)
               /\ I_load[1] <= n_prll * Q_Ah =>
                      Q_out[k] = FMul(I_load[1], t_hr[k] - t_hr[1])

C7_Witness ==
    /\ Done /\ ConstantLoad /\ UniformSteps /\ N = MaxLen
    /\ I_load[1] > n_prll * Q_Ah
    /\ ValidSample(N) /\ Q_out[N] > 0

\* C8 as stated: across the valid samples Q_out and dod never decrease and soc
\* never increases, for every load sequence (stated here for time-ordered
\* samples).
C8_MonotoneAlways ==
    (Done /\ TimeOrdered) => \A k \in 1..N : \A j \in k..N : (ValidSample(k) /\ ValidSample(j)) =>
                /\ Q_out[k] <= Q_out[j] /\ dod[k] <= dod[j] /\ soc[k] >= soc[j]

\* C8 amended: across the valid samples Q_out and dod never decrease and soc
\* never increases, for every non-negative load sequence over a non-decreasing
\* time vector.
C8_MonotoneDischarge ==
    (Done /\ NonNegLoad /\ TimeOrdered) =>
        \A k \in 1..N : \A j \in k..N : (ValidSample(k) /\ ValidSample(j)) =>
            /\ Q_out[k] <= Q_out[j] /\ dod[k] <= dod[j] /\ soc[k] >= soc[j]

C8_Witness ==
    /\ Done /\ NonNegLoad /\ TimeOrdered /\ N = MaxLen
    /\ ValidSample(N) /\ Q_out[N] > Q_out[2] /\ Q_out[2] > Q_out[1]

\* C9 as stated: at every sample that is not flagged, dod = Q_out/Q_tot,
\* soc = 1 - dod, and both lie in [0,1] (stated here for time-ordered samples).
C9_UnitIntervalAlways ==
    (Done /\ TimeOrdered) => \A k \in 1..N : ValidSample(k) =>
                /\ dod[k] = FDiv(Q_out[k], Q_tot)
                /\ soc[k] + dod[k] = Scale
                /\ dod[k] >= 0 /\ dod[k] <= Scale
                /\ soc[k] >= 0 /\ soc[k] <= Scale

\* C9 amended: at every sample that is not flagged, dod = Q_out/Q_tot,
\* soc = 1 - dod, dod <= 1 and soc >= 0; both lie in [0,1] when the load is
\* non-negative and the time vector non-decreasing.
C9_UnitIntervalDischarge ==
    Done => \A k \in 1..N : ValidSample(k) =>
                /\ dod[k] = FDiv(Q_out[k], n_prll * Q_Ah)
                /\ soc[k] + dod[k] = Scale
                /\ dod[k] <= Scale /\ soc[k] >= 0
                /\ (NonNegLoad /\ TimeOrdered) => (dod[k] >= 0 /\ soc[k] <= Scale)

C9_Witness ==
    /\ Done /\ NonNegLoad /\ TimeOrdered
    /\ \E k \in 1..N : ValidSample(k) /\ dod[k] > 0 /\ dod[k] < Scale
    /\ \E k \in 1..N : Flagged(k)

\* C10: at every valid sample V_term = n_ser*V_cell(soc) - I_pkrt*R_eq with
\* R_eq = R_int*(n_ser/n_prll), the drop taken with the Peukert-adjusted
\* current, and V_cell the open-circuit curve (4.1029 V at soc = 1, 2.654 V at
\* soc = 0).
C10_TerminalVoltage ==
    Done => \A k \in 1..N : ValidSample(k) =>
        LET drop == FMul(SpecPeukert(I_load[k]),
                         FMul(R_int, FDiv(n_ser * Scale, n_prll * Scale)))
        IN  /\ V_term[k] = n_ser * V_cell(soc[k]) - drop
            /\ soc[k] = Scale => V_term[k] + drop = n_ser * 41029
            /\ soc[k] = 0 => V_term[k] + drop = n_ser * 26540

C10_Witness ==
    /\ Done
    /\ \E k \in 1..N : /\ ValidSample(k) /\ I_pkrt[k] # I_load[k]
                       /\ n_prll # n_ser /\ soc[k] < Scale

-----------------------------------------------------------------------------
(* Batch against incremental *)

\* C3: for the same load history the incremental loop records the same state
\* of charge and terminal voltage as batt_pred (compared on the samples after
\* the first which batt_pred reports as valid, up to rounding).
C3_BatchEqualsIncremental ==
    (pc = "compared" /\ NonNegLoad)
        => \A k \in 2..N :
              ValidSample(k) => /\ Near(sim_soc[k], soc[k])
                                /\ Near(sim_Vbatt_term[k], V_term[k])

-----------------------------------------------------------------------------
(* Properties of the ex_intg_mdl loop *)

CutoffStop == sim_state \in { "soc_cutoff", "volt_cutoff" }

Unset(k) ==
    /\ IsNan(sim_soc[k])
    /\ IsNan(sim_Vsoc_cell[k])
    /\ IsNan(sim_Vbatt_term[k])
    /\ IsNan(sim_duty[k])
    /\ IsNan(sim_Ictrl[k])

\* the state of charge the last battery update computed
soc_now == FSub(Scale, FDiv(sim_Qdisc, QAh * 3600))

\* C4: the loop is stopped at a cutoff exactly when the last battery update
\* computed soc <= soc_cutoff or a cell voltage <= Vcutoff; once stopped, no
\* array holds a sample at the index of that step or after it; every recorded
\* sim_soc is above soc_cutoff and every recorded sim_Vsoc_cell above Vcutoff.
C4_CutoffStopsRecording ==
    /\ CutoffStop <=> (FLe(soc_now, soc_cutoff) \/ FLe(V_cell(soc_now), Vcutoff))
    /\ CutoffStop => \A k \in i..(SimLen - 1) : Unset(k)
    /\ \A k \in 0..(SimLen - 1) :
          /\ ~IsNan(sim_soc[k]) => FGt(sim_soc[k], soc_cutoff)
          /\ ~IsNan(sim_Vsoc_cell[k]) => FGt(sim_Vsoc_cell[k], Vcutoff)

\* a cutoff stops the loop after at least one sample was recorded
C4_Witness ==
    /\ CutoffStop
    /\ i >= 2
    /\ ~IsNan(sim_soc[i-1])
    /\ ~IsNan(sim_Vsoc_cell[i-1])

InRange(d, M, w) ==
    /\ FLe(3000, d) /\ FLe(d, Scale)
    /\ FLe(0, M) /\ FLe(M, 2 * Scale)
    /\ FLe(0, w) /\ FLe(w, 1000 * Scale)

\* what one iteration may do, given the sample it read
C5_Step ==
    /\ sim_state # "running" => UNCHANGED vars
    /\ (sim_state = "running" /\ i < SimLen) =>
          LET w == exp_w'[i]
              M == exp_M'[i]
              d == FDiv(FMul(w, kt), sim_Vbatt_lcl)
          IN  /\ (FGt(d, Scale) \/ FGt(M, 2 * Scale) \/ FGt(w, 1000 * Scale))
                    => /\ sim_state' = "overload"
                       /\ UNCHANGED << i, sim_Qdisc, sim_Vbatt_lcl, simArrays >>
              /\ (sim_Qdisc' # sim_Qdisc \/ sim_duty' # sim_duty) => InRange(d, M, w)
              /\ sim_duty' # sim_duty => sim_duty' = [sim_duty EXCEPT ![i] = d]

\* C5: the throttle is recorded as solved, never clamped; a sample with
\* duty > 1, torque > 2.0 or speed > 1e3 stops the loop with the battery and
\* the arrays untouched; the battery is discharged and sim_duty recorded only
\* for samples with 0.3 <= duty <= 1, 0 <= M <= 2.0, 0 <= w <= 1e3; nothing
\* changes after the stop.
C5_OverloadStopsBeforeModels ==
    /\ [](\A k \in 0..(SimLen - 1) :
            ~IsNan(sim_duty[k]) => InRange(sim_duty[k], exp_M[k], exp_w[k]))
    /\ [][C5_Step]_vars

\* the loop stops because the required throttle exceeds 1, at a sample within
\* the torque and speed limits, after at least one sample was recorded
C5_Witness ==
    /\ sim_state = "overload"
    /\ i >= 2
    /\ ~IsNan(sim_duty[i-1])
    /\ FGt(FDiv(FMul(exp_w[i], kt), sim_Vbatt_lcl), Scale)
    /\ FLe(exp_M[i], 2 * Scale)
    /\ FLe(exp_w[i], 1000 * Scale)

-----------------------------------------------------------------------------
(* Properties of motor_pred and esc_pred *)

\* the call has returned its arrays
MotorReturned == mot_pc \in { "motor", "esc" }

EscReturned == mot_pc = "esc"

Pts == 1..Len(mot_w)

\* the rounding of the fixed-point operations of one element: two units, divided
\* by a duty ratio down to 0.1
PredTol == 2 * 10

NearWithin(a, b, tol) == ~IsNan(a) /\ ~IsNan(b) /\ a - b <= tol /\ b - a <= tol

\* C11: the motor current is the bias form T/kt + I0 (removed when negative),
\* the input power is P_out + 0.1*P_out + (Rm*I^2 + kt*I0*w)/d, with only the
\* copper and iron losses divided by d, and the efficiency is P_out/P_in
\* wherever it is returned.
C11_MotorPower ==
    MotorReturned => \A k \in Pts :
        LET Iraw == FAdd(FDiv(mot_T[k], mot_kt), mot_I0)
            loss == FAdd(FMul(mot_Rm, FMul(mot_I[k], mot_I[k])),
                         FMul(FMul(mot_kt, mot_I0), mot_w[k]))
            P_spec == FAdd(FAdd(mot_P_out[k], FMul(1000, mot_P_out[k])),
                           FDiv(loss, mot_d))
        IN  /\ mot_I[k] = IF Iraw < 0 THEN nan ELSE Iraw
            /\ ~IsNan(mot_I[k]) => NearWithin(mot_P_in[k], P_spec, PredTol)
            /\ ~IsNan(mot_n[k]) => mot_n[k] = FDiv(mot_P_out[k], mot_P_in[k])

\* a motoring point at part throttle with a no-load current and an efficiency
C11_Witness ==
    /\ MotorReturned
    /\ mot_d > 0 /\ mot_d < Scale /\ mot_Rm > 0 /\ mot_I0 > 0
    /\ \E k \in Pts : mot_P_out[k] > 0 /\ ~IsNan(mot_n[k]) /\ mot_n[k] > 0

\* the element is a physical load of the ESC: current and power of a motor that
\* draws them, positive bus voltage, duty ratio in (0,1]
ValidLoad(k) ==
    /\ ~IsNan(mot_I[k]) /\ mot_I[k] >= 0
    /\ ~IsNan(mot_P_in[k]) /\ mot_P_in[k] >= 0
    /\ mot_V > 0
    /\ mot_d > 0 /\ mot_d <= Scale

\* C12: the ESC power is P_dc = P_ac + P_qui + (2*R_ds_on*I_ac^2 +
\* f_pwm*T_trans*V_dc*I_ac)/d with the quiescent power P_qui (0.25 W) added
\* flat, the efficiency is P_ac/P_dc and the current is I_dc = P_dc/V_dc.
C12_EscPower ==
    EscReturned => \A k \in Pts : ValidLoad(k) =>
        LET Q_cond == FMul(FMul(2 * Scale, Ron), FMul(mot_I[k], mot_I[k]))
            Q_sw == FMul(FMul(mot_V, mot_I[k]), f_pwm_Ton)
            P_spec == FAdd(FAdd(mot_P_in[k], P_qui), FDiv(FAdd(Q_cond, Q_sw), mot_d))
        IN  /\ NearWithin(esc_P_dc[k], P_spec, PredTol)
            /\ ~IsNan(esc_n[k]) => esc_n[k] = FDiv(mot_P_in[k], esc_P_dc[k])
            /\ esc_I_dc[k] = FDiv(esc_P_dc[k], mot_V)

\* C14: for a physical load the returned DC current is the unmasked value
\* P_dc/V, whatever its magnitude.
C14_DcCurrentUnmasked ==
    EscReturned => \A k \in Pts : ValidLoad(k) =>
        /\ ~IsNan(esc_I_dc[k])
        /\ esc_I_dc[k] = FDiv(esc_P_dc[k], mot_V)

\* the motor current of element k before the non-real data is removed
I_raw(k) == FAdd(FDiv(mot_T[k], mot_kt), mot_I0)

\* C13: a batch evaluation returns an element for every operating point,
\* infeasible or not: each efficiency (motor and ESC) is NaN or within [0,1],
\* each motor current is NaN or >= 0, and an element whose motor current is
\* negative has NaN current, NaN input power and NaN efficiency.
C13_InfeasibleMasked ==
    /\ MotorReturned =>
          /\ \A out \in { mot_T, mot_P_out, mot_I, mot_P_in, mot_n } : Len(out) = Len(mot_w)
          /\ \A k \in Pts :
                /\ IsNan(mot_n[k]) \/ (mot_n[k] >= 0 /\ mot_n[k] <= Scale)
                /\ IsNan(mot_I[k]) \/ mot_I[k] >= 0
                /\ I_raw(k) < 0 =>
                      IsNan(mot_I[k]) /\ IsNan(mot_P_in[k]) /\ IsNan(mot_n[k])
    /\ EscReturned =>
          /\ \A out \in { esc_I_dc, esc_P_dc, esc_n } : Len(out) = Len(mot_w)
          /\ \A k \in Pts : IsNan(esc_n[k]) \/ (esc_n[k] >= 0 /\ esc_n[k] <= Scale)

\* one array with a feasible element, an element of negative current and an
\* element whose current is real but whose efficiency is out of range
C13_Witness ==
    /\ EscReturned
    /\ \E k \in Pts : ~IsNan(mot_n[k]) /\ mot_n[k] > 0 /\ ~IsNan(esc_n[k])
    /\ \E k \in Pts : I_raw(k) < 0 /\ IsNan(mot_n[k])
    /\ \E k \in Pts : ~IsNan(mot_I[k]) /\ ~IsNan(mot_P_in[k]) /\ IsNan(mot_n[k])

\* the duty ratios compared
DutySet == { 1000, 5000, Scale }

\* the efficiencies of the operating points at duty ratio d, torque and speed
\* held at the values of the call
n_at(d) == AsSeq(eff(mot_P_out, motor_P_in(mot_P_out, mot_I, mot_w, d)))

\* a motoring point with a real current
Motoring(k) == mot_T[k] > 0 /\ mot_w[k] > 0 /\ ~IsNan(mot_I[k]) /\ mot_Rm > 0

\* C15 as stated: at each d in {0.1, 0.5, 1.0} the efficiency of a motoring
\* point is below 1 and above the efficiency at every larger d, all else equal.
C15_EfficiencyFallsWithDuty ==
    MotorReturned => \A k \in Pts : Motoring(k) =>
        \A d1 \in DutySet :
            /\ ~IsNan(n_at(d1)[k]) /\ n_at(d1)[k] < Scale
            /\ \A d2 \in DutySet : d2 > d1 => n_at(d1)[k] > n_at(d2)[k]

\* C15 corrected: at each d in {0.1, 0.5, 1.0} the efficiency of a motoring
\* point is below 1 and below the efficiency at every larger d, all else
\* equal: the loss (P_L_co+P_L_ir)/d shrinks as d grows.
C15_EfficiencyRisesWithDuty ==
    MotorReturned => \A k \in Pts : Motoring(k) =>
        \A d1 \in DutySet :
            /\ ~IsNan(n_at(d1)[k]) /\ n_at(d1)[k] < Scale
            /\ \A d2 \in DutySet : d2 > d1 => n_at(d1)[k] < n_at(d2)[k]

C15_Witness ==
    /\ MotorReturned
    /\ \E k \in Pts : /\ Motoring(k) /\ mot_I0 > 0
                      /\ n_at(1000)[k] > 0
                      /\ n_at(5000)[k] > n_at(1000)[k]
                      /\ n_at(Scale)[k] > n_at(5000)[k]

\* C16: a call with a misconfigured parameter (non-positive resistance Rm,
\* non-positive duty ratio d) fails at the boundary: it never returns arrays.
C16_MisconfigurationRejected ==
    (mot_Rm <= 0 \/ mot_d <= 0) => ~MotorReturned

Reversed(x) == [k \in 1..Len(x) |-> x[Len(x) + 1 - k]]

\* C17: element k of every result of motor_pred and esc_pred, masked or not,
\* is what a call on element k alone returns, and what a call on the array in
\* reverse order returns at the mirrored index.
C17_Elementwise ==
    /\ MotorReturned =>
          LET all == << mot_T, mot_P_out, mot_I, mot_P_in, mot_n >>
              rev == motor_pred_of(Reversed(mot_w))
          IN  \A k \in Pts :
                  LET one == motor_pred_of(<< mot_w[k] >>)
                  IN  \A j \in 1..5 : /\ one[j][1] = all[j][k]
                                      /\ rev[j][Len(mot_w) + 1 - k] = all[j][k]
    /\ EscReturned =>
          LET all == << esc_I_dc, esc_P_dc, esc_n >>
              rev == esc_pred_of(Reversed(mot_I), Reversed(mot_P_in), mot_V, mot_d)
          IN  \A k \in Pts :
                  LET one == esc_pred_of(<< mot_I[k] >>, << mot_P_in[k] >>, mot_V, mot_d)
                  IN  \A j \in 1..3 : /\ one[j][1] = all[j][k]
                                      /\ rev[j][Len(mot_w) + 1 - k] = all[j][k]

\* an array in which an unmasked element follows a masked one
C17_Witness ==
    /\ EscReturned
    /\ Len(mot_w) = MaxPts
    /\ \E j \in Pts : \E k \in Pts :
          /\ j < k
          /\ IsNan(mot_I[j]) /\ IsNan(esc_n[j])
          /\ ~IsNan(mot_I[k]) /\ ~IsNan(mot_n[k]) /\ ~IsNan(esc_n[k])

-----------------------------------------------------------------------------
(* Flags of batt_pred *)

\* C18: the three outputs of batt_pred are NaN at the same samples, and these
\* are exactly the samples whose cumulative discharge is above n_prll*Q_Ah.
C18_SameFlags ==
    Done => \A k \in 1..N :
        /\ IsNan(V_term[k]) <=> IsNan(dod[k])
        /\ IsNan(dod[k]) <=> IsNan(soc[k])
        /\ IsNan(soc[k]) <=> RawQ[k] > n_prll * Q_Ah

\* a trajectory with a valid sample, a sample exactly at capacity and a
\* flagged sample
C18_Witness ==
    /\ Done /\ N = MaxLen
    /\ \E k \in 2..N : ValidSample(k) /\ RawQ[k] = n_prll * Q_Ah
    /\ \E k \in 2..N : Flagged(k) /\ RawQ[k] > n_prll * Q_Ah

-----------------------------------------------------------------------------
(* Regenerative points of motor_pred *)

\* w >= 0, 0 < d <= 1, V > 0, Rm > 0, kt > 0, I0 >= 0
MotorDomain ==
    /\ \A k \in Pts : mot_w[k] >= 0
    /\ mot_d > 0 /\ mot_d <= Scale
    /\ mot_V > 0 /\ mot_Rm > 0 /\ mot_kt > 0 /\ mot_I0 >= 0

\* 1/1.1, rounded up
EffCap == (10 * Scale) \div 11 + 1

\* C19: within the domain, an efficiency that motor_pred returns unmasked
\* belongs to a point with T >= 0 and P_out >= 0 and is at most 1/1.1; the
\* efficiency of every point with T < 0 is NaN, also where the current
\* T/kt + I0 is not negative.
C19_RegenerationMasked ==
    (MotorReturned /\ MotorDomain) => \A k \in Pts :
        /\ ~IsNan(mot_n[k]) =>
              /\ mot_T[k] >= 0 /\ mot_P_out[k] >= 0
              /\ mot_n[k] >= 0 /\ mot_n[k] <= EffCap
        /\ mot_T[k] < 0 => IsNan(mot_n[k])

\* regenerative points whose current is real: one with positive and one with
\* negative input power, next to a motoring point
C19_Witness ==
    /\ MotorReturned /\ MotorDomain
    /\ \E k \in Pts : /\ mot_T[k] < 0 /\ ~IsNan(mot_I[k])
                      /\ mot_P_in[k] > 0 /\ IsNan(mot_n[k])
    /\ \E k \in Pts : /\ mot_T[k] < 0 /\ ~IsNan(mot_I[k])
                      /\ mot_P_in[k] < 0 /\ IsNan(mot_n[k])
    /\ \E k \in Pts : mot_T[k] > 0 /\ ~IsNan(mot_n[k]) /\ mot_n[k] > 0

-----------------------------------------------------------------------------
(* Termination of the ex_intg_mdl loop *)

\* C20: every iteration of the loop either ends it (i unchanged) or goes on
\* with i increased by exactly one; i stays within 1..len(sim_t), so there are
\* at most len(sim_t)-1 iterations; the loop always ends.
C20_LoopTerminates ==
    /\ [][sim_state = "running" =>
              \/ i' = i + 1 /\ sim_state' = "running"
              \/ i' = i /\ sim_state' # "running"]_vars
    /\ [](i >= 1 /\ i <= SimLen)
    /\ <>(sim_state # "running")

\* the loop has run through all samples, passing some through and recording
\* others
C20_Witness ==
    /\ sim_state = "complete"
    /\ i = SimLen
    /\ \E k \in 1..(SimLen - 1) : ~IsNan(sim_duty[k])
    /\ \E k \in 1..(SimLen - 1) : IsNan(sim_duty[k]) /\ ~IsNan(sim_Vbatt_term[k])

-----------------------------------------------------------------------------
(* Frame of a pass-through step of the ex_intg_mdl loop *)

\* what an iteration does, given the sample it read: within the limits but
\* with duty < 0.3, torque < 0 or speed < 0 it leaves the battery alone
C21_Step ==
    (sim_state = "running" /\ i < SimLen) =>
        LET w == exp_w'[i]
            M == exp_M'[i]
            d == FDiv(FMul(w, kt), sim_Vbatt_lcl)
            over == FGt(d, Scale) \/ FGt(M, 2 * Scale) \/ FGt(w, 1000 * Scale)
            idle == FLt(d, 3000) \/ FLt(M, 0) \/ FLt(w, 0)
        IN  /\ (~over /\ idle) =>
                  /\ sim_Qdisc' = sim_Qdisc
                  /\ sim_Vbatt_lcl' = sim_Vbatt_lcl
                  /\ sim_Vbatt_term' = [sim_Vbatt_term EXCEPT ![i] = sim_Vbatt_term[i-1]]
                  /\ sim_Ictrl' = [sim_Ictrl EXCEPT ![i] = sim_Ictrl[i-1]]
                  /\ UNCHANGED << sim_soc, sim_Vsoc_cell, sim_duty >>
                  /\ IsNan(sim_soc'[i]) /\ IsNan(sim_Vsoc_cell'[i]) /\ IsNan(sim_duty'[i])
                  /\ i' = i + 1
            /\ sim_Qdisc' # sim_Qdisc => (~over /\ ~idle)

\* C21: a pass-through step keeps sim_Qdisc and sim_Vbatt_lcl, copies
\* sim_Vbatt_term and sim_Ictrl from index i-1 to i, and leaves sim_soc[i],
\* sim_Vsoc_cell[i] and sim_duty[i] unrecorded; sim_Qdisc changes only in steps
\* that evaluate the motor and ESC models.
C21_PassThroughFrame == [][C21_Step]_vars

\* a pass-through by low throttle right after a recorded sample
C21_Witness ==
    /\ sim_state = "running"
    /\ i >= 3
    /\ ~IsNan(sim_duty[i-2]) /\ sim_Qdisc > 0
    /\ IsNan(sim_duty[i-1]) /\ IsNan(sim_soc[i-1]) /\ IsNan(sim_Vsoc_cell[i-1])
    /\ exp_w[i-1] >= 0
    /\ sim_Vbatt_term[i-1] = sim_Vbatt_term[i-2]
    /\ sim_Ictrl[i-1] = sim_Ictrl[i-2]

====
